---- MODULE Spec2Model ----
(***************************************************************************)
(* Model of nc_py_api: the file-system facade (FilesAPI), its multistatus  *)
(* decoder and record parser, and the search-request compiler.             *)
(*                                                                         *)
(* Text is modelled as a sequence of atoms: "/" is the path separator,     *)
(* every other atom is an indivisible run of characters (a path segment,   *)
(* a word of a status line).  Stripping, splitting, searching and          *)
(* replacing work on these sequences as the Python string methods work on  *)
(* characters.                                                             *)
(***************************************************************************)
EXTENDS Integers, Sequences, FiniteSets, TLC

VARIABLES pc,       \* "idle": no call in progress; "done": a call has returned or raised
          dirs,     \* the collections that exist on the remote (relative to the user's root)
          call,     \* the public operation called and its arguments
          net,      \* the responses the transport gave to the call's requests, in order
          sent,     \* the requests the call issued, in order
          outcome,  \* how the call ended: returned, or the exception raised
          returned, \* the value the call returned (a node list, an optional node, content)
          xml,      \* the elements the search compiler put under d:where
          stream,   \* the streaming connection of download2stream: "none", "open", "closed"
          fp,       \* the chunks written to the sink of download2stream
          obj,      \* the FsNode a caller constructs or sets a value on (<<>>: none)
          worklist, \* the caller's expression list as find leaves it
          mw,       \* the AppAPIAuthMiddleware object (<<>> before it is constructed)
          asgi,     \* what the middleware did with the scope it was called for
          nextcloud \* what the model-fetch task reported to the platform

\* what only some operations touch
ext == <<stream, fp, obj, worklist>>
\* the state of the application integration
app == <<mw, asgi, nextcloud>>
vars == <<pc, dirs, call, net, sent, outcome, returned, xml, ext, app>>

(***************************************************************************)
(* Bounds of the model.                                                    *)
(***************************************************************************)
MaxRecords == 2     \* entries of a generic multistatus body
MaxChildren == 2    \* children of a listed directory

(***************************************************************************)
(* str methods                                                             *)
(***************************************************************************)
RECURSIVE lstrip(_)
lstrip(s) == IF s # <<>> /\ Head(s) = "/" THEN lstrip(Tail(s)) ELSE s

RECURSIVE rstrip(_)
rstrip(s) == IF s # <<>> /\ s[Len(s)] = "/" THEN rstrip(SubSeq(s, 1, Len(s) - 1)) ELSE s

startswith(s, prefix) ==
    /\ Len(prefix) <= Len(s)
    /\ SubSeq(s, 1, Len(prefix)) = prefix

endswith(s, suffix) ==
    /\ Len(suffix) <= Len(s)
    /\ SubSeq(s, Len(s) - Len(suffix) + 1, Len(s)) = suffix

\* s.find(sub) != -1
RECURSIVE contains(_, _)
contains(s, sub) ==
    IF startswith(s, sub) THEN TRUE
    ELSE IF s = <<>> THEN FALSE
    ELSE contains(Tail(s), sub)

\* s.replace(old, new): every non-overlapping occurrence, left to right
RECURSIVE replace(_, _, _)
replace(s, old, new) ==
    IF s = <<>> \/ old = <<>> THEN s
    ELSE IF startswith(s, old)
         THEN new \o replace(SubSeq(s, Len(old) + 1, Len(s)), old, new)
         ELSE <<Head(s)>> \o replace(Tail(s), old, new)

\* s.rsplit("/", maxsplit=1)[-1]: what follows the last "/"
RECURSIVE rsplit_last(_)
rsplit_last(s) ==
    IF s = <<>> \/ s[Len(s)] = "/" THEN <<>>
    ELSE rsplit_last(SubSeq(s, 1, Len(s) - 1)) \o <<s[Len(s)]>>

\* urllib.parse.unquote: percent-escapes decoded, everything else kept
unquote_atom(a) ==
    CASE a = "y%20z" -> "y z"
      [] OTHER -> a

unquote(s) == [i \in 1..Len(s) |-> unquote_atom(s[i])]

\* int(text) of a decimal digit string
DigitVal(c) ==
    CASE c = "0" -> 0 [] c = "1" -> 1 [] c = "2" -> 2 [] c = "3" -> 3
      [] c = "4" -> 4 [] c = "5" -> 5 [] c = "6" -> 6 [] c = "7" -> 7
      [] c = "8" -> 8 [] c = "9" -> 9

RECURSIVE int(_)
int(s) == IF Len(s) = 1 THEN DigitVal(s[1])
          ELSE 10 * int(SubSeq(s, 1, Len(s) - 1)) + DigitVal(s[Len(s)])

(***************************************************************************)
(* Session                                                                 *)
(***************************************************************************)
session_user == <<"u">>
dav_url_suffix == <<"/", "remote.php", "/", "dav">>

(***************************************************************************)
(* exceptions                                                              *)
(***************************************************************************)
NoError == [exc |-> "", status_code |-> 0, reason |-> <<>>]
NextcloudException(status_code, reason) ==
    [exc |-> "NextcloudException", status_code |-> status_code, reason |-> reason]
PyError(name) == [exc |-> name, status_code |-> 0, reason |-> <<>>]

is_error(code) == 400 <= code /\ code <= 599

\* check_error(code, info): the exception raised, NoError when none is
check_error(code) ==
    IF is_error(code) THEN NextcloudException(code, <<>>) ELSE NoError

(***************************************************************************)
(* FsNode                                                                  *)
(***************************************************************************)
Epoch == <<"1970-01-01">>

FsNode(user, path, name) ==
    [user |-> user, path |-> path, name |-> name,
     nc_id |-> <<>>, fileid |-> 0, etag |-> <<>>, size |-> 0, content_length |-> 0,
     last_modified |-> Epoch, permissions |-> <<>>, favorite |-> FALSE]

is_dir(node) == endswith(node.path, <<"/">>)

full_path(node) ==
    IF node.user # <<>> THEN node.user \o <<"/">> \o lstrip(node.path) ELSE node.path

\* email.utils.parsedate_to_datetime: the instant, or <<>> when it raises ValueError
parsedate_to_datetime(value) ==
    CASE value = <<"Mon,", "02", "Jan", "2023", "10:00:00", "GMT">> -> <<"2023-01-02T10:00:00Z">>
      [] OTHER -> <<>>

\* a value given for last_modified: a string or a datetime
DateStr(s) == [kind |-> "str", v |-> s]
DateTime(d) == [kind |-> "datetime", v |-> d]

\* the last_modified setter: the node after it, and the exception it raised
last_modified_setter(fs_node, value) ==
    IF value.kind = "str" /\ parsedate_to_datetime(value.v) = <<>>
    THEN [err |-> PyError("ValueError"), node |-> fs_node]
    ELSE [err |-> NoError,
          node |-> [fs_node EXCEPT !.last_modified =
                       IF value.kind = "str" THEN parsedate_to_datetime(value.v) ELSE value.v]]

\* FsNode(user, path, name, last_modified=value): no node when the setter raises
FsNode_last_modified(user, path, name, value) ==
    IF last_modified_setter(FsNode(user, path, name), value).err # NoError
    THEN [err |-> last_modified_setter(FsNode(user, path, name), value).err, node |-> <<>>]
    ELSE last_modified_setter(FsNode(user, path, name), value)

(***************************************************************************)
(* Transport.  A response is a status code and a body; the body is held as *)
(* what xmltodict.parse makes of it: nothing (empty text), a d:error       *)
(* envelope, or a d:multistatus whose d:response is absent, one mapping or *)
(* a list of mappings.                                                     *)
(***************************************************************************)
Request(method, path) == [method |-> method, path |-> path]

NoResponseList == [shape |-> "absent", items |-> <<>>]
EmptyText == [kind |-> "empty", exception |-> <<>>, message |-> <<>>, response |-> NoResponseList]
ErrorText(exception, message) ==
    [kind |-> "error", exception |-> exception, message |-> message, response |-> NoResponseList]
MultistatusText(shape, items) ==
    [kind |-> "multistatus", exception |-> <<>>, message |-> <<>>,
     response |-> [shape |-> shape, items |-> items]]
Response(status_code, text) == [status_code |-> status_code, text |-> text]

\* What an operation gives back: the exception it raised (NoError when it returned),
\* the value it returned and the requests it issued.
Returned(value, requests) == [err |-> NoError, value |-> value, sent |-> requests]
Raised(err, requests) == [err |-> err, value |-> <<>>, sent |-> requests]

(***************************************************************************)
(* FilesAPI                                                                *)
(***************************************************************************)
_dav_get_obj_path(user, path) ==
    <<"/", "files">>
        \o (IF user # <<>> THEN <<"/">> \o user ELSE <<>>)
        \o (IF path # <<>> THEN <<"/">> \o lstrip(path) ELSE <<>>)

_set_last_modified(old, value) ==
    IF parsedate_to_datetime(value) # <<>> THEN parsedate_to_datetime(value) ELSE old

\* the body of _parse_record's loop for a block whose status holds "200 OK"
_parse_prop(fs_node, prop) ==
    LET has(k) == k \in DOMAIN prop
    IN [fs_node EXCEPT
          !.nc_id = IF has("oc:id") THEN prop["oc:id"] ELSE @,
          !.fileid = IF has("oc:fileid") THEN int(prop["oc:fileid"]) ELSE @,
          !.size = IF has("oc:size") THEN int(prop["oc:size"]) ELSE @,
          !.content_length =
              IF has("d:getcontentlength") THEN int(prop["d:getcontentlength"]) ELSE @,
          !.etag = IF has("d:getetag") THEN prop["d:getetag"] ELSE @,
          !.last_modified =
              IF has("d:getlastmodified") THEN _set_last_modified(@, prop["d:getlastmodified"])
              ELSE @,
          !.permissions = IF has("oc:permissions") THEN prop["oc:permissions"] ELSE @,
          !.favorite = IF has("oc:favorite") THEN int(prop["oc:favorite"]) # 0 ELSE @]

RECURSIVE _parse_prop_stats(_, _)
_parse_prop_stats(prop_stats, fs_node) ==
    IF prop_stats = <<>> THEN fs_node
    ELSE _parse_prop_stats(
             Tail(prop_stats),
             IF ~contains(Head(prop_stats).status, <<"200", "OK">>) THEN fs_node
             ELSE _parse_prop(fs_node, Head(prop_stats).prop))

_parse_record(prop_stats, user, obg_rel_path, obj_name) ==
    _parse_prop_stats(prop_stats, FsNode(user, obg_rel_path, obj_name))

\* an operation's result with the request that was sent before it put first
_after_request(request, result) == [result EXCEPT !.sent = <<request>> \o @]

\* result[0] if result else None, of an operation that returned a list
_first_or_none(result) == [result EXCEPT !.value = IF @ # <<>> THEN <<@[1]>> ELSE <<>>]

\* _parse_records: the name and the relative path taken from an href
\* _obj_name taking the name from what is left once the user's prefix is stripped
_obj_name_relative(obj_full_path) ==
    rsplit_last(rstrip(lstrip(replace(obj_full_path,
                                      dav_url_suffix \o _dav_get_obj_path(session_user, <<>>),
                                      <<>>))))

_obj_name(obj_full_path) == rsplit_last(rstrip(obj_full_path))
_obg_rel_path(obj_full_path, user) ==
    lstrip(replace(obj_full_path, dav_url_suffix \o _dav_get_obj_path(user, <<>>), <<>>))

\* _keep_record without the file-id test of line 297: every parsed node is appended
_keep_record_unfiltered(favorite, fs_node) ==
    IF favorite /\ fs_node.fileid = 0 THEN "lookup" ELSE "append"

\* _parse_records: what is done with a parsed node: looked up, appended or dropped
_keep_record(favorite, fs_node) ==
    IF favorite /\ fs_node.fileid = 0 THEN "lookup"
    ELSE IF fs_node.fileid # 0 THEN "append"
    ELSE "drop"

\* _enrich without line 295: the looked-up node is substituted as it came
_enrich_unmarked(looked) == looked

\* _parse_records: the looked-up node, marked favorite, in place of the placeholder
_enrich(looked) ==
    [looked EXCEPT !.value = IF @ # <<>> THEN <<[@[1] EXCEPT !.favorite = TRUE]>> ELSE <<>>]

\* _listdir's exclude_self: the first node whose full path is the queried one is deleted
RECURSIVE _del_first(_, _)
_del_first(result, full_path_q) ==
    IF result = <<>> THEN <<>>
    ELSE IF rstrip(full_path(Head(result))) = full_path_q THEN Tail(result)
    ELSE <<Head(result)>> \o _del_first(Tail(result), full_path_q)

_self_path(user, path) ==
    IF user # <<>> THEN rstrip(user \o <<"/">> \o path) ELSE rstrip(path)

RECURSIVE _parse_records_loop(_, _, _, _, _, _)
RECURSIVE _lf_parse_webdav_records(_, _, _, _)
RECURSIVE _listdir(_, _, _, _)
RECURSIVE listdir(_, _, _, _)
RECURSIVE by_path(_, _)

\* _parse_records: one record's part of the loop; rs are the responses the transport
\* will give to the requests still to come
_place(fs_node, keep, rs) ==
    CASE keep = "lookup" -> _enrich(by_path(fs_node.path, rs))
      [] keep = "append" -> Returned(<<fs_node>>, <<>>)
      [] OTHER -> Returned(<<>>, <<>>)

_parsed(record, obj_full_path, user) ==
    _parse_record(record.propstat.items, user, _obg_rel_path(obj_full_path, user),
                  _obj_name(obj_full_path))

_parse_one(record, obj_full_path, user, favorite, rs) ==
    IF _obj_name(obj_full_path) = <<>> THEN Returned(<<>>, <<>>)
    ELSE _place(_parsed(record, obj_full_path, user),
                _keep_record(favorite, _parsed(record, obj_full_path, user)), rs)

\* _parse_next putting each node in front of the ones before it
_parse_next_prepend(step, rest, user, favorite, rs, result, requests) ==
    IF step.err # NoError THEN Raised(step.err, requests \o step.sent)
    ELSE _parse_records_loop(rest, user, favorite, SubSeq(rs, Len(step.sent) + 1, Len(rs)),
                             step.value \o result, requests \o step.sent)

_parse_next(step, rest, user, favorite, rs, result, requests) ==
    IF step.err # NoError THEN Raised(step.err, requests \o step.sent)
    ELSE _parse_records_loop(rest, user, favorite, SubSeq(rs, Len(step.sent) + 1, Len(rs)),
                             result \o step.value, requests \o step.sent)

_parse_records_loop(fs_records, user, favorite, rs, result, requests) ==
    IF fs_records = <<>> THEN Returned(result, requests)
    ELSE _parse_next(_parse_one(Head(fs_records), unquote(Head(fs_records).href),
                                user, favorite, rs),
                     Tail(fs_records), user, favorite, rs, result, requests)

_parse_records(fs_records, user, favorite, rs) ==
    _parse_records_loop(fs_records, user, favorite, rs, <<>>, <<>>)

\* _lf_parse_webdav_records without the multistatus test of line 333
_lf_parse_any_success(webdav_res, user, favorite, rs) ==
    IF check_error(webdav_res.status_code) # NoError
    THEN Raised(check_error(webdav_res.status_code), <<>>)
    ELSE IF webdav_res.text.kind = "empty"
    THEN Raised(NextcloudException(webdav_res.status_code, <<"Response is empty.">>), <<>>)
    ELSE IF webdav_res.text.kind = "error"
    THEN Raised(NextcloudException(
                    0, replace(webdav_res.text.exception \o <<": ">> \o webdav_res.text.message,
                               <<"\n">>, <<>>)),
                <<>>)
    ELSE _parse_records(webdav_res.text.response.items, user, favorite, rs)

_lf_parse_webdav_records(webdav_res, user, favorite, rs) ==
    IF check_error(webdav_res.status_code) # NoError
    THEN Raised(check_error(webdav_res.status_code), <<>>)
    ELSE IF webdav_res.status_code # 207
    THEN Raised(NextcloudException(webdav_res.status_code, <<"Response is not a multistatus.">>),
                <<>>)
    ELSE IF webdav_res.text.kind = "empty"
    THEN Raised(NextcloudException(webdav_res.status_code, <<"Response is empty.">>), <<>>)
    ELSE IF webdav_res.text.kind = "error"
    THEN Raised(NextcloudException(
                    0, replace(webdav_res.text.exception \o <<": ">> \o webdav_res.text.message,
                               <<"\n">>, <<>>)),
                <<>>)
    ELSE _parse_records(webdav_res.text.response.items, user, favorite, rs)

_exclude_self(result, exclude_self, full_path_q) ==
    [result EXCEPT !.value = IF exclude_self THEN _del_first(@, full_path_q) ELSE @]

_listdir(user, path, exclude_self, rs) ==
    _exclude_self(
        _after_request(Request("PROPFIND", _dav_get_obj_path(user, path)),
                       _lf_parse_webdav_records(Head(rs), user, FALSE, Tail(rs))),
        exclude_self, _self_path(user, path))

listdir(path, exclude_self, root, rs) ==
    _listdir(IF root THEN <<>> ELSE session_user, path, exclude_self, rs)

by_path(path, rs) == _first_or_none(listdir(path, FALSE, FALSE, rs))

(***************************************************************************)
(* Search requests.  A request list holds strings, integers, booleans and  *)
(* (when the caller nests) lists; an element of the compiled tree names    *)
(* its parent by position (0 is d:where itself).                           *)
(***************************************************************************)
Str(x) == [t |-> "str", s |-> x, n |-> 0, l |-> <<>>]
Num(x) == [t |-> "int", s |-> "", n |-> x, l |-> <<>>]
Bool(x) == [t |-> "bool", s |-> "", n |-> IF x THEN 1 ELSE 0, l |-> <<>>]
List(x) == [t |-> "list", s |-> "", n |-> 0, l |-> x]

RECURSIVE py_repr(_)
RECURSIVE py_join(_)
py_join(l) ==
    IF l = <<>> THEN ""
    ELSE IF Len(l) = 1 THEN py_repr(l[1])
    ELSE py_repr(l[1]) \o ", " \o py_join(Tail(l))

py_repr(v) ==
    CASE v.t = "str" -> "'" \o v.s \o "'"
      [] v.t = "int" -> ToString(v.n)
      [] v.t = "bool" -> IF v.n = 1 THEN "True" ELSE "False"
      [] v.t = "list" -> "[" \o py_join(v.l) \o "]"

\* str(v), and the f-string's {v}
py_str(v) == IF v.t = "str" THEN v.s ELSE py_repr(v)

SEARCH_PROPERTIES_MAP ==
    [k \in {"name:", "mime", "last_modified", "size", "favorite", "fileid"} |->
        CASE k = "name:" -> "d:displayname"
          [] k = "mime" -> "d:getcontenttype"
          [] k = "last_modified" -> "d:getlastmodified"
          [] k = "size" -> "oc:size"
          [] k = "favorite" -> "oc:favorite"
          [] k = "fileid" -> "oc:fileid"]

Element(tag, parent, text) == [tag |-> tag, parent |-> parent, text |-> text]

\* ElementTree.SubElement(parent, tag): the compilation with the element appended
SubElement(st, parent, tag) == [st EXCEPT !.els = Append(@, Element(tag, parent, ""))]

\* the compilation stopped by an exception
Stopped(st, name) == [st EXCEPT !.err = PyError(name)]

\* _map_field as SEARCH_PROPERTIES_MAP.get(key, ""): an unknown name raises nothing
_map_field_lenient(key) ==
    IF key.t = "list" THEN [tag |-> "", err |-> "TypeError"]
    ELSE IF key.t = "str" /\ key.s \in DOMAIN SEARCH_PROPERTIES_MAP
    THEN [tag |-> SEARCH_PROPERTIES_MAP[key.s], err |-> ""]
    ELSE [tag |-> "", err |-> ""]

\* SEARCH_PROPERTIES_MAP[key]: "" with the exception a bad key raises
_map_field(key) ==
    IF key.t = "list" THEN [tag |-> "", err |-> "TypeError"]
    ELSE IF key.t = "str" /\ key.s \in DOMAIN SEARCH_PROPERTIES_MAP
    THEN [tag |-> SEARCH_PROPERTIES_MAP[key.s], err |-> ""]
    ELSE [tag |-> "", err |-> "KeyError"]

\* first_val in ("or", "and")
_is_or_and(v) == v.t = "str" /\ v.s \in {"or", "and"}

\* req.pop(0), the popped value read before it
Pop(st) == [st EXCEPT !.req = Tail(@)]

\* _add_value: the literal's text, from the next value of the list
_clause_literal(st) ==
    IF st.req = <<>> THEN Stopped(st, "IndexError")
    ELSE [Pop(st) EXCEPT !.els[Len(st.els)].text = py_str(Head(st.req))]

\* _add_value: the mapped property under d:prop, then d:literal under the clause
_clause_mapped(st, root, field) ==
    IF field.err # "" THEN Stopped(st, field.err)
    ELSE _clause_literal([st EXCEPT !.els = @ \o <<Element(field.tag, root + 1, ""),
                                                    Element("d:literal", root, "")>>])

_clause_field(st, root) ==
    IF st.req = <<>> THEN Stopped(st, "IndexError")
    ELSE _clause_mapped(Pop(st), root, _map_field(Head(st.req)))

\* the comparison clause of _add_value, once first_val is known not to be or/and:
\* the clause's element and d:prop under it, then the field and the literal
_add_clause(st, xml_element, first_val) ==
    _clause_field([st EXCEPT !.els = @ \o <<Element("d:" \o py_str(first_val), xml_element, ""),
                                            Element("d:prop", Len(st.els) + 1, "")>>],
                  Len(st.els) + 1)

RECURSIVE _add_value(_, _, _)
RECURSIVE _process_or_and(_, _, _)

_second_value(st, _where_part_root) ==
    IF st.err # NoError THEN st ELSE _add_value(st, _where_part_root, <<>>)

\* _process_or_and with one _add_value call instead of two
_process_or_and_once(st, xml_element, or_and) ==
    _add_value(SubElement(st, xml_element, "d:" \o or_and), Len(st.els) + 1, <<>>)

_process_or_and(st, xml_element, or_and) ==
    _second_value(_add_value(SubElement(st, xml_element, "d:" \o or_and), Len(st.els) + 1, <<>>),
                  Len(st.els) + 1)

_add_first(st, xml_element, first_val) ==
    IF _is_or_and(first_val) THEN _process_or_and(st, xml_element, first_val.s)
    ELSE _add_clause(st, xml_element, first_val)

\* val: <<>> for None, <<v>> for a value
_add_value(st, xml_element, val) ==
    IF val # <<>> THEN _add_first(st, xml_element, val[1])
    ELSE IF st.req = <<>> THEN Stopped(st, "IndexError")
    ELSE _add_first(Pop(st), xml_element, Head(st.req))

\* _build_search_req compiling one top-level expression: an if where the while is
_build_search_once(st) ==
    IF st.err # NoError \/ st.req = <<>> THEN st
    ELSE IF _is_or_and(Head(st.req)) THEN _process_or_and(Pop(st), 0, Head(st.req).s)
    ELSE _add_value(Pop(st), 0, <<Head(st.req)>>)

RECURSIVE _build_search_loop(_)
_build_search_loop(st) ==
    IF st.err # NoError \/ st.req = <<>> THEN st
    ELSE _build_search_loop(IF _is_or_and(Head(st.req))
                            THEN _process_or_and(Pop(st), 0, Head(st.req).s)
                            ELSE _add_value(Pop(st), 0, <<Head(st.req)>>))

_build_search_req(req) == _build_search_loop([req |-> req, els |-> <<>>, err |-> NoError])

_find_send(built, rs) ==
    IF built.err # NoError THEN Raised(built.err, <<>>)
    ELSE _after_request(Request("SEARCH", <<>>),
                        _lf_parse_webdav_records(Head(rs), session_user, FALSE, Tail(rs)))

find(req, path, depth, rs) == _find_send(_build_search_req(req), rs)

by_id(fileid, rs) ==
    _first_or_none(find(<<Str("eq"), Str("fileid"), Num(fileid)>>, <<>>, -1, rs))

\* _one_request sending the request a second time when the first answer is a failure
_one_request_retried(method, path, rs) ==
    IF check_error(Head(rs).status_code) # NoError
    THEN Raised(check_error(Head(rs).status_code),
                <<Request(method, _dav_get_obj_path(session_user, path)),
                  Request(method, _dav_get_obj_path(session_user, path))>>)
    ELSE Returned(<<>>, <<Request(method, _dav_get_obj_path(session_user, path))>>)

\* the operations that send one request and check its status
_one_request(method, path, rs) ==
    IF check_error(Head(rs).status_code) # NoError
    THEN Raised(check_error(Head(rs).status_code),
                <<Request(method, _dav_get_obj_path(session_user, path))>>)
    ELSE Returned(<<>>, <<Request(method, _dav_get_obj_path(session_user, path))>>)

_content(got, content) == IF got.err # NoError THEN got ELSE [got EXCEPT !.value = content]

download(path, rs) == _content(_one_request("GET", path, rs), Head(rs).text)

\* download2stream: the loop over response.iter_raw, from chunk k on; fault tells where
\* iter_raw or fp.write raises, if anywhere
RECURSIVE _write_chunks(_, _, _, _)
_write_chunks(chunks, k, fault, written) ==
    IF fault = [kind |-> "iter", at |-> k] THEN [err |-> PyError("ReadError"), fp |-> written]
    ELSE IF k > Len(chunks) THEN [err |-> NoError, fp |-> written]
    ELSE IF fault = [kind |-> "write", at |-> k] THEN [err |-> PyError("OSError"), fp |-> written]
    ELSE _write_chunks(chunks, k + 1, fault, Append(written, chunks[k]))

\* the body of the with statement
_stream_body(response, chunks, fault) ==
    IF check_error(response.status_code) # NoError
    THEN [err |-> check_error(response.status_code), fp |-> <<>>]
    ELSE _write_chunks(chunks, 1, fault, <<>>)

\* the with statement releasing the connection only when its body raises nothing
_exit_stream_on_success(body, request) ==
    [err |-> body.err, value |-> <<>>, sent |-> <<request>>, fp |-> body.fp,
     stream |-> IF body.err = NoError THEN "closed" ELSE "open"]

\* leaving the with statement: the connection is released however the body ended
_exit_stream(body, request) ==
    [err |-> body.err, value |-> <<>>, sent |-> <<request>>, fp |-> body.fp,
     stream |-> "closed"]

download2stream(path, chunks, fault, rs) ==
    _exit_stream(_stream_body(Head(rs), chunks, fault),
                 Request("GET", _dav_get_obj_path(session_user, path)))

upload(path, rs) == _one_request("PUT", path, rs)

mkdir(path, rs) == _one_request("MKCOL", path, rs)

\* pathlib.Path(path).parts
RECURSIVE _segments(_)
_segments(path) ==
    IF path = <<>> THEN <<>>
    ELSE IF Head(path) = "/" THEN _segments(Tail(path))
    ELSE <<Head(path)>> \o _segments(Tail(path))

parts(path) == (IF startswith(path, <<"/">>) THEN <<"/">> ELSE <<>>) \o _segments(path)

\* os.path.join(a, b)
join(a, b) ==
    IF b = "/" THEN <<b>>
    ELSE IF a = <<>> \/ endswith(a, <<"/">>) THEN Append(a, b)
    ELSE a \o <<"/", b>>

RECURSIVE _makedirs_loop(_, _, _, _, _)

\* _makedirs_next without the tolerance of status 405
_makedirs_next_strict(made, todo, _path, exist_ok, rs, requests) ==
    IF made.err # NoError THEN Raised(made.err, requests \o made.sent)
    ELSE _makedirs_loop(todo, _path, exist_ok, rs, requests \o made.sent)

_makedirs_next(made, todo, _path, exist_ok, rs, requests) ==
    IF made.err # NoError /\ ~(exist_ok /\ made.err.status_code = 405)
    THEN Raised(made.err, requests \o made.sent)
    ELSE _makedirs_loop(todo, _path, exist_ok, rs, requests \o made.sent)

_makedirs_loop(todo, _path, exist_ok, rs, requests) ==
    IF todo = <<>> THEN Returned(<<>>, requests)
    ELSE _makedirs_next(mkdir(join(_path, Head(todo)), rs), Tail(todo),
                        join(_path, Head(todo)), exist_ok, Tail(rs), requests)

makedirs(path, exist_ok, rs) == _makedirs_loop(parts(path), <<>>, exist_ok, rs, <<>>)

\* delete with not_fail tolerating every failure status, not only 404
delete_any_failure(path, not_fail, rs) ==
    IF is_error(Head(rs).status_code) /\ not_fail
    THEN Returned(<<>>, <<Request("DELETE", _dav_get_obj_path(session_user, path))>>)
    ELSE _one_request("DELETE", path, rs)

delete(path, not_fail, rs) ==
    IF Head(rs).status_code = 404 /\ not_fail
    THEN Returned(<<>>, <<Request("DELETE", _dav_get_obj_path(session_user, path))>>)
    ELSE _one_request("DELETE", path, rs)

move(path_src, path_dest, overwrite, rs) == _one_request("MOVE", path_src, rs)

copy(path_src, path_dest, overwrite, rs) == _one_request("COPY", path_src, rs)

listfav(rs) ==
    IF check_error(Head(rs).status_code) # NoError
    THEN Raised(check_error(Head(rs).status_code),
                <<Request("REPORT", _dav_get_obj_path(session_user, <<>>))>>)
    ELSE _after_request(Request("REPORT", _dav_get_obj_path(session_user, <<>>)),
                        _lf_parse_webdav_records(Head(rs), session_user, TRUE, Tail(rs)))

setfav(path, value, rs) == _one_request("PROPPATCH", path, rs)

(***************************************************************************)
(* The remote.  Hrefs are reported under the DAV suffix and the user's     *)
(* files root; a propstat block pairs a status line with a property map.   *)
(***************************************************************************)
FilesRoot == dav_url_suffix \o <<"/", "files", "/">> \o session_user \o <<"/">>
Href(rel) == FilesRoot \o rel

OkStatus == <<"HTTP/1.1", "200", "OK">>
BareOkStatus == <<"HTTP/1.1", "200">>
NotFoundStatus == <<"HTTP/1.1", "404", "Not", "Found">>
TeapotStatus == <<"HTTP/1.1", "418", "I'm", "a", "teapot">>

RECURSIVE Digits(_)
Digits(n) ==
    LET d == <<"0", "1", "2", "3", "4", "5", "6", "7", "8", "9">>[(n % 10) + 1]
    IN IF n < 10 THEN <<d>> ELSE Append(Digits(n \div 10), d)

ValidDate == <<"Mon,", "02", "Jan", "2023", "10:00:00", "GMT">>

FullProp(id) ==
    ("oc:fileid" :> Digits(id)) @@ ("oc:id" :> Digits(id) \o <<"ocinstance">>)
        @@ ("d:getetag" :> <<"etag">>) @@ ("oc:size" :> <<"5">>)
        @@ ("d:getlastmodified" :> ValidDate) @@ ("oc:permissions" :> <<"RGDNVW">>)
        @@ ("oc:favorite" :> <<"0">>) @@ ("d:resourcetype" :> <<>>)
MissingProp == ("nc:lock" :> <<>>) @@ ("nc:lock-owner" :> <<>>)

PropStat(status, prop) == [status |-> status, prop |-> prop]
Record(href, shape, items) == [href |-> href, propstat |-> [shape |-> shape, items |-> items]]

\* an entry with every property found
FullRecord(rel, id) == Record(Href(rel), "dict", <<PropStat(OkStatus, FullProp(id))>>)
\* an entry with the found properties in one block and the missing ones in another
SplitRecord(rel, id) ==
    Record(Href(rel), "list",
           <<PropStat(NotFoundStatus, MissingProp), PropStat(OkStatus, FullProp(id))>>)
\* an entry with no property found (what a favorites report gives)
PlaceholderRecord(rel) == Record(Href(rel), "dict", <<PropStat(TeapotStatus, <<>>)>>)
\* an entry whose date is no date, and one that gives a date and then one that is none
InvalidDate == <<"yesterday">>
BadDateRecord(rel, id) ==
    Record(Href(rel), "dict",
           <<PropStat(OkStatus, ("d:getlastmodified" :> InvalidDate) @@ FullProp(id))>>)
RedatedRecord(rel, id) ==
    Record(Href(rel), "list",
           <<PropStat(OkStatus, FullProp(id)),
             PropStat(OkStatus, ("d:getlastmodified" :> InvalidDate))>>)
\* an entry whose only block has a status line without the reason phrase
BareRecord(rel, id) == Record(Href(rel), "dict", <<PropStat(BareOkStatus, FullProp(id))>>)

ChildName(i) ==
    CASE i = 1 -> "x"
      [] i = 2 -> "y%20z"
      [] OTHER -> "c" \o ToString(i)

\* the path, relative to the user's root, of directory dir (a sequence of names)
RECURSIVE DirRel(_)
DirRel(dir) == IF dir = <<>> THEN <<>> ELSE <<Head(dir), "/">> \o DirRel(Tail(dir))

DirId(dir) == 10 * (Len(dir) + 1)

\* the multistatus body of a PROPFIND of directory dir with its first n children
Listing(dir, n) ==
    MultistatusText("list",
        <<FullRecord(DirRel(dir), DirId(dir))>>
            \o [i \in 1..n |-> FullRecord(DirRel(dir) \o <<ChildName(i)>>, DirId(dir) + i)])

ListedDirs == {<<>>, <<"a">>}
Listings(dir) == {Response(207, Listing(dir, n)) : n \in 0..MaxChildren}

\* the ways of writing directory dir as a path argument
RECURSIVE Joined(_)
Joined(dir) ==
    IF dir = <<>> THEN <<>>
    ELSE IF Len(dir) = 1 THEN dir
    ELSE <<Head(dir), "/">> \o Joined(Tail(dir))

PathForms(dir, root) ==
    LET base == Joined((IF root THEN session_user ELSE <<>>) \o dir)
    IN {base, base \o <<"/">>, <<"/">> \o base, <<"/">> \o base \o <<"/">>}

RecordPool ==
    { FullRecord(<<"a", "/">>, 20),
      FullRecord(<<"a", "/", "x">>, 21),
      PlaceholderRecord(<<"a", "/", "x">>),
      SplitRecord(<<"a", "/", "y%20z">>, 22),
      BareRecord(<<"a", "/", "x">>, 21),
      BadDateRecord(<<"a", "/", "x">>, 23),
      RedatedRecord(<<"a", "/", "x">>, 24),
      FullRecord(<<>>, 10),
      Record(<<>>, "dict", <<PropStat(OkStatus, FullProp(99))>>) }

SeqsUpTo(S, n) == UNION {[1..k -> S] : k \in 0..n}

ErrorEnvelope ==
    ErrorText(<<"Sabre\\DAV\\Exception\\NotFound">>, <<"File", "\n", "not", "\n", "found">>)

GenericTexts ==
    {EmptyText, ErrorEnvelope, MultistatusText("absent", <<>>)}
        \cup {MultistatusText(IF Len(rs) = 1 THEN "dict" ELSE "list", rs) :
                  rs \in SeqsUpTo(RecordPool, MaxRecords) \ {<<>>}}

GenericResponses ==
    {Response(207, t) : t \in GenericTexts}
        \cup {Response(c, t) : c \in {200, 404, 500},
                               t \in {EmptyText, ErrorEnvelope, Listing(<<"a">>, 1)}}

\* the statuses of the requests that carry no multistatus body
SimpleStatuses == {200, 201, 204, 404, 507}
Content == <<"bytes">>

(***************************************************************************)
(* Collections on the remote: MKCOL answers 405 for one that exists, 409   *)
(* when the parent is missing, 201 on creating it (or 507 when it cannot); *)
(* DELETE answers 404 for one that is missing, 204 on removing it and what *)
(* is below it (or 423 when it is locked).                                 *)
(***************************************************************************)
UserPrefixLen == Len(_dav_get_obj_path(session_user, <<>>))
RemoteTarget(request) == _segments(SubSeq(request.path, UserPrefixLen + 1, Len(request.path)))

Parent(target) == SubSeq(target, 1, Len(target) - 1)

MkcolStatus(ds, target, fault) ==
    IF target = <<>> \/ target \in ds THEN 405
    ELSE IF Parent(target) # <<>> /\ Parent(target) \notin ds THEN 409
    ELSE IF fault THEN 507
    ELSE 201

DeleteStatus(ds, target, fault) ==
    IF target \notin ds THEN 404
    ELSE IF fault THEN 423
    ELSE 204

AfterMkcol(ds, target, status) == IF status = 201 THEN ds \cup {target} ELSE ds
AfterDelete(ds, target, status) ==
    IF status = 204
    THEN {d \in ds : ~(Len(d) >= Len(target) /\ SubSeq(d, 1, Len(target)) = target)}
    ELSE ds

\* the answers to a run of MKCOLs, and the collections after each
RECURSIVE MkcolRun(_, _, _)

MkcolStep(ds, target, status, requests, faults) ==
    <<[response |-> Response(status, EmptyText), dirs |-> AfterMkcol(ds, target, status)]>>
        \o MkcolRun(AfterMkcol(ds, target, status), requests, faults)

MkcolRun(ds, requests, faults) ==
    IF requests = <<>> THEN <<>>
    ELSE MkcolStep(ds, RemoteTarget(Head(requests)),
                   MkcolStatus(ds, RemoteTarget(Head(requests)), Head(faults)),
                   Tail(requests), Tail(faults))

DirPaths == {<<"a">>, <<"a", "/", "b">>, <<"a", "/", "b", "/", "c">>, <<"/", "a", "/", "b">>,
             <<"a", "/", "b", "/">>}

\* the requests makedirs issues when no MKCOL fails
AllMkcols(path) ==
    makedirs(path, TRUE, [i \in 1..Len(parts(path)) |-> Response(201, EmptyText)]).sent

(***************************************************************************)
(* Inputs of the calls                                                     *)
(***************************************************************************)
MaxFav == 2         \* entries of a favorites report

Reqs ==
    << <<Str("eq"), Str("fileid"), Num(42)>>,
       <<Str("and"), List(<<Str("eq"), Str("fileid"), Num(42)>>),
                     List(<<Str("eq"), Str("favorite"), Bool(TRUE)>>)>>,
       <<Str("and"), Str("eq"), Str("fileid"), Num(42), Str("eq"), Str("favorite"), Bool(TRUE)>>,
       <<Str("eq"), Str("name"), Str("x")>>,
       <<Str("like"), Str("name:"), Str("x%")>>,
       <<Str("like"), Str("mime"), Str("image/%")>>,
       <<Str("gt"), Str("last_modified"), Str("2023-01-01T00:00:00Z")>>,
       <<Str("gte"), Str("size"), Num(0)>>,
       <<Str("eq"), Str("favorite"), Num(1)>>,
       <<Str("eq"), Str("no_such_field"), Num(1)>>,
       <<Str("or"), Str("eq"), Str("fileid"), Num(42), Str("eq"), Str("no_such_field"), Num(1)>>,
       <<Str("and"), Str("eq"), Str("fileid"), Num(42)>>,
       <<Str("gt"), Str("size"), Num(0), Str("like"), Str("mime"), Str("image/%")>>,
       <<Str("or"), Str("and"), Str("eq"), Str("fileid"), Num(42), Str("eq"), Str("size"), Num(5),
         Str("eq"), Str("favorite"), Num(1)>>,
       <<>> >>

FilePaths == {<<"a", "/", "x">>, <<"/", "a", "/", "x">>}
FileIds == {21, 42}

FoundResponse(rel, id) == Response(207, MultistatusText("dict", <<FullRecord(rel, id)>>))
Found == { FoundResponse(<<"a", "/", "x">>, 21), FoundResponse(<<"a", "/", "y%20z">>, 22) }
NotFound == { Response(404, ErrorEnvelope),
              Response(207, MultistatusText("dict", <<PlaceholderRecord(<<"a", "/", "x">>)>>)) }
LookupResponses == Found \cup NotFound

FavPool ==
    { PlaceholderRecord(<<"a", "/", "x">>),
      PlaceholderRecord(<<"a", "/", "y%20z">>),
      FullRecord(<<"a", "/">>, 20) }

FavReports ==
    {Response(207, MultistatusText(IF Len(rs) = 1 THEN "dict" ELSE "list", rs)) :
        rs \in SeqsUpTo(FavPool, MaxFav) \ {<<>>}}
      \cup {Response(207, MultistatusText("absent", <<>>)), Response(207, EmptyText),
            Response(404, ErrorEnvelope), Response(200, EmptyText)}

\* the lookups listfav makes for a report when every lookup is answered
LookupsOf(report) ==
    Len(listfav(<<report>> \o [i \in 1..Len(report.text.response.items) |->
                                   FoundResponse(<<"a", "/", "x">>, 21)]).sent) - 1

(***************************************************************************)
(* The state machine: a call is made when none is in progress, and ends    *)
(* returned or raised; Return hands the result to the caller.              *)
(***************************************************************************)
(***************************************************************************)
(* ex_app integration: the authentication middleware.  A scope is held as  *)
(* its type, its url path and what request_sign_check makes of its         *)
(* headers.                                                                *)
(***************************************************************************)
HTTPException(status_code, detail) ==
    [exc |-> "HTTPException", status_code |-> status_code, reason |-> detail]

\* anc_app(request) with request_sign_check answering as the scope says
anc_app(request) ==
    CASE request.sign = "malformed" -> PyError("binascii.Error")
      [] request.sign = "invalid" -> HTTPException(401, <<"Unauthorized">>)
      [] OTHER -> NoError

NotHeartbeat(i) == i # <<"heartbeat">>

\* AppAPIAuthMiddleware.__init__(app, disable_for); disable_for is <<>> for None
AppAPIAuthMiddleware(disable_for) ==
    [_disable_for |->
        SelectSeq([k \in 1..Len(disable_for) |-> lstrip(disable_for[k])], NotHeartbeat)
            \o << <<"heartbeat">> >>]

\* what the middleware did: the calls of the wrapped application and the response
\* it sent itself (<<>>: none)
NoScope == [app_called |-> 0, response |-> <<>>]
_on_error(status_code, content) == [status_code |-> status_code, content |-> content]

\* self.app(scope, receive, send)
Forwarded(done) == [done EXCEPT !.app_called = @ + 1]
\* response(scope, receive, send)
Responded(done, response) == [done EXCEPT !.response = response]

\* __call__ without the return at line 272: the request goes on after the response
__call___no_return(self, scope) ==
    IF scope.type # "http" THEN [err |-> NoError, asgi |-> Forwarded(NoScope)]
    ELSE IF /\ \A k \in 1..Len(self._disable_for) : self._disable_for[k] # lstrip(scope.path)
            /\ anc_app(scope).exc = "HTTPException"
    THEN [err |-> NoError,
          asgi |-> Forwarded(Responded(NoScope, _on_error(anc_app(scope).status_code,
                                                          anc_app(scope).reason)))]
    ELSE IF /\ \A k \in 1..Len(self._disable_for) : self._disable_for[k] # lstrip(scope.path)
            /\ anc_app(scope) # NoError
    THEN [err |-> anc_app(scope), asgi |-> NoScope]
    ELSE [err |-> NoError, asgi |-> Forwarded(NoScope)]

\* AppAPIAuthMiddleware.__call__(scope, receive, send)
__call__(self, scope) ==
    IF scope.type # "http" THEN [err |-> NoError, asgi |-> Forwarded(NoScope)]
    ELSE IF /\ \A k \in 1..Len(self._disable_for) : self._disable_for[k] # lstrip(scope.path)
            /\ anc_app(scope).exc = "HTTPException"
    THEN [err |-> NoError,
          asgi |-> Responded(NoScope, _on_error(anc_app(scope).status_code,
                                                anc_app(scope).reason))]
    ELSE IF /\ \A k \in 1..Len(self._disable_for) : self._disable_for[k] # lstrip(scope.path)
            /\ anc_app(scope) # NoError
    THEN [err |-> anc_app(scope), asgi |-> NoScope]
    ELSE [err |-> NoError, asgi |-> Forwarded(NoScope)]

(***************************************************************************)
(* ex_app integration: the model-fetch task.  nc is what the platform has  *)
(* been told: the init statuses set and the levels logged.  A model is     *)
(* held as its url and what becomes of its download: a failure status, the *)
(* file found present with the linked hash, no Content-Length, or a body   *)
(* of equal chunks whose reading may raise before chunk number fail.       *)
(***************************************************************************)
NoReports == [init_status |-> <<>>, log |-> <<>>]
set_init_status(nc, value) == [nc EXCEPT !.init_status = Append(@, value)]
log(nc, log_lvl) == [nc EXCEPT !.log = Append(@, log_lvl)]

min(a, b) == IF a < b THEN a ELSE b

\* urllib.parse.urlparse raises ValueError for a url it cannot split
urlparse(model) == IF model.url = "malformed" THEN PyError("ValueError") ELSE NoError

\* the loop over response.iter_bytes: chunk k of the model's chunks
RECURSIVE _iter_bytes(_, _, _, _, _, _)
_iter_bytes(current_progress, progress_for_task, nc, model, k, last_progress) ==
    IF model.fail = k THEN log(nc, "ERROR")
    ELSE IF k > model.chunks THEN nc
    ELSE IF min(current_progress + ((progress_for_task * k) \div model.chunks), 99)
                # last_progress
    THEN _iter_bytes(current_progress, progress_for_task,
                     set_init_status(nc, min(current_progress
                                                + ((progress_for_task * k) \div model.chunks),
                                             99)),
                     model, k + 1,
                     min(current_progress + ((progress_for_task * k) \div model.chunks), 99))
    ELSE _iter_bytes(current_progress, progress_for_task, nc, model, k + 1, last_progress)

\* the try block of __fetch_model_as_file, and its except
_fetch_stream(current_progress, progress_for_task, nc, model) ==
    CASE model.kind = "status" -> log(nc, "ERROR")
      [] model.kind = "no_length" -> log(nc, "ERROR")
      [] model.kind = "cached" ->
            set_init_status(nc, min(current_progress + progress_for_task, 99))
      [] OTHER -> _iter_bytes(current_progress, progress_for_task, nc, model, 1,
                              current_progress)

__fetch_model_as_file(current_progress, progress_for_task, nc, model) ==
    IF urlparse(model) # NoError
    THEN [err |-> urlparse(model), nc |-> nc, sent |-> <<>>]
    ELSE [err |-> NoError,
          nc |-> _fetch_stream(current_progress, progress_for_task, nc, model),
          sent |-> <<Request("GET", model.url)>>]

\* the loop of __fetch_models_task over the models left
RECURSIVE _fetch_loop(_, _, _, _)
_fetch_next(fetched, current_progress, percent_for_each, models, requests) ==
    IF fetched.err # NoError
    THEN [err |-> fetched.err, nc |-> fetched.nc, sent |-> requests \o fetched.sent]
    ELSE _fetch_loop(current_progress + percent_for_each, percent_for_each,
                     [fetched EXCEPT !.sent = requests \o @], models)

_fetch_loop(current_progress, percent_for_each, done, models) ==
    IF models = <<>> THEN done
    ELSE _fetch_next(__fetch_model_as_file(current_progress, percent_for_each, done.nc,
                                           Head(models)),
                     current_progress, percent_for_each, Tail(models), done.sent)

_set_done(fetched) ==
    IF fetched.err # NoError THEN fetched
    ELSE [fetched EXCEPT !.nc = set_init_status(@, 100)]

__fetch_models_task(nc, models) ==
    IF models = <<>> THEN _set_done([err |-> NoError, nc |-> nc, sent |-> <<>>])
    ELSE _set_done(_fetch_loop(0, min(100 \div Len(models), 99),
                               [err |-> NoError, nc |-> nc, sent |-> <<>>], models))

\* the lists a middleware is constructed with and the scopes it is called for
MaxDisabled == 2
DisablePaths ==
    { <<"public">>, <<"/", "public">>, <<"heartbeat">>, <<"/", "heartbeat">>, <<"init">> }
DisableLists == SeqsUpTo(DisablePaths, MaxDisabled)
Scopes ==
    [type : {"http", "websocket", "lifespan"},
     path : { <<"/", "heartbeat">>, <<"/", "/", "heartbeat">>, <<"/", "heartbeat", "/">>,
              <<"/", "public">>, <<"/", "init">>, <<"/", "enabled">>, <<"/">> },
     sign : {"valid", "invalid", "malformed"}]

\* the models of a dictionary: every key is an http url of its own
MaxModels == 2
MaxParts == 2
Outcomes ==
    [kind : {"status", "no_length", "cached"}, chunks : {0}, fail : {0}]
        \cup UNION {[kind : {"download"}, chunks : {n}, fail : 0..n] : n \in 1..MaxParts}
ModelUrl(i, form) == IF form = "malformed" THEN form ELSE "https://host/m" \o ToString(i)
ModelDicts ==
    UNION {{[i \in 1..n |-> [url |-> ModelUrl(i, forms[i]), kind |-> outs[i].kind,
                              chunks |-> outs[i].chunks, fail |-> outs[i].fail]] :
               forms \in [1..n -> {"parsed", "malformed"}], outs \in [1..n -> Outcomes]} :
           n \in 0..MaxModels}

\* the bodies a download is streamed in, and where the stream or the sink may fail
MaxChunks == 2
Bodies == {[i \in 1..n |-> i] : n \in 0..MaxChunks}
StreamFaults(chunks) ==
    {[kind |-> "none", at |-> 0]}
        \cup {[kind |-> "iter", at |-> k] : k \in 1..(Len(chunks) + 1)}
        \cup {[kind |-> "write", at |-> k] : k \in 1..Len(chunks)}

\* the values a caller gives for last_modified, and the values a node has before
Instant == <<"2023-01-02T10:00:00Z">>
DateValues == {DateStr(ValidDate), DateStr(InvalidDate), DateStr(<<>>), DateTime(Instant)}
PriorDates == {Epoch, Instant}

NoCall == [op |-> "none"]

Init ==
    /\ pc = "idle"
    /\ dirs = {}
    /\ call = NoCall
    /\ net = <<>>
    /\ sent = <<>>
    /\ outcome = NoError
    /\ returned = <<>>
    /\ xml = <<>>
    /\ stream = "none"
    /\ fp = <<>>
    /\ obj = <<>>
    /\ worklist = <<>>
    /\ mw = <<>>
    /\ asgi = NoScope
    /\ nextcloud = NoReports

\* the call c ended as r, given the responses rs
Finish(c, r, rs) ==
    /\ pc' = "done"
    /\ call' = c
    /\ sent' = r.sent
    /\ net' = SubSeq(rs, 1, IF Len(r.sent) < Len(rs) THEN Len(r.sent) ELSE Len(rs))
    /\ outcome' = r.err
    /\ returned' = r.value

\* a mkdir or makedirs call c ended, the remote answering its MKCOLs as in run
MkcolEnd(c, r, rs, run) ==
    /\ Finish(c, r, rs)
    /\ dirs' = IF r.sent = <<>> THEN dirs ELSE run[Len(r.sent)].dirs

MkcolAnswers(run) == [i \in 1..Len(run) |-> run[i].response]

MkcolDone(c, run, exist_ok) ==
    MkcolEnd(c,
             IF c.op = "mkdir" THEN mkdir(c.path, MkcolAnswers(run))
             ELSE makedirs(c.path, exist_ok, MkcolAnswers(run)),
             MkcolAnswers(run), run)

DeleteDone(c, target, status) ==
    /\ Finish(c, delete(c.path, c.not_fail, <<Response(status, EmptyText)>>),
              <<Response(status, EmptyText)>>)
    /\ dirs' = AfterDelete(dirs, target, status)

ListDir ==
    /\ pc = "idle"
    /\ \E dir \in ListedDirs, root \in BOOLEAN, exclude_self \in BOOLEAN :
         \E path \in PathForms(dir, root), response \in Listings(dir) \cup GenericResponses :
            Finish([op |-> "listdir", path |-> path, exclude_self |-> exclude_self, root |-> root],
                   listdir(path, exclude_self, root, <<response>>), <<response>>)
    /\ UNCHANGED <<dirs, xml, ext, app>>

ById ==
    /\ pc = "idle"
    /\ \E fileid \in FileIds, response \in GenericResponses :
            Finish([op |-> "by_id", fileid |-> fileid],
                   by_id(fileid, <<response>>), <<response>>)
    /\ UNCHANGED <<dirs, xml, ext, app>>

ByPath ==
    /\ pc = "idle"
    /\ \E dir \in ListedDirs :
         \E path \in PathForms(dir, FALSE) \cup FilePaths,
            response \in Listings(dir) \cup GenericResponses :
            Finish([op |-> "by_path", path |-> path],
                   by_path(path, <<response>>), <<response>>)
    /\ UNCHANGED <<dirs, xml, ext, app>>

Find ==
    /\ pc = "idle"
    /\ \E i \in 1..Len(Reqs), response \in GenericResponses :
            /\ Finish([op |-> "find", req |-> Reqs[i], path |-> <<>>, depth |-> -1],
                      find(Reqs[i], <<>>, -1, <<response>>), <<response>>)
            /\ xml' = _build_search_req(Reqs[i]).els
            /\ worklist' = _build_search_req(Reqs[i]).req
    /\ UNCHANGED <<dirs, stream, fp, obj, app>>

Download ==
    /\ pc = "idle"
    /\ \E path \in FilePaths, status \in SimpleStatuses :
            Finish([op |-> "download", path |-> path],
                   download(path, <<Response(status, Content)>>), <<Response(status, Content)>>)
    /\ UNCHANGED <<dirs, xml, ext, app>>

Download2Stream ==
    /\ pc = "idle"
    /\ \E path \in FilePaths, status \in SimpleStatuses, chunks \in Bodies :
         \E fault \in StreamFaults(chunks) :
            /\ Finish([op |-> "download2stream", path |-> path, chunks |-> chunks,
                       fault |-> fault],
                      download2stream(path, chunks, fault, <<Response(status, Content)>>),
                      <<Response(status, Content)>>)
            /\ stream' = download2stream(path, chunks, fault,
                                         <<Response(status, Content)>>).stream
            /\ fp' = download2stream(path, chunks, fault, <<Response(status, Content)>>).fp
    /\ UNCHANGED <<dirs, xml, obj, worklist, app>>

Upload ==
    /\ pc = "idle"
    /\ \E path \in FilePaths, status \in SimpleStatuses :
            Finish([op |-> "upload", path |-> path],
                   upload(path, <<Response(status, EmptyText)>>), <<Response(status, EmptyText)>>)
    /\ UNCHANGED <<dirs, xml, ext, app>>

Mkdir ==
    /\ pc = "idle"
    /\ \E path \in DirPaths, fault \in BOOLEAN :
         MkcolDone([op |-> "mkdir", path |-> path],
                   MkcolRun(dirs, <<Request("MKCOL", _dav_get_obj_path(session_user, path))>>,
                            <<fault>>),
                   FALSE)
    /\ UNCHANGED <<xml, ext, app>>

Makedirs ==
    /\ pc = "idle"
    /\ \E path \in DirPaths, exist_ok \in BOOLEAN :
         \E faults \in [1..Len(parts(path)) -> BOOLEAN] :
            MkcolDone([op |-> "makedirs", path |-> path, exist_ok |-> exist_ok],
                      MkcolRun(dirs, AllMkcols(path), faults), exist_ok)
    /\ UNCHANGED <<xml, ext, app>>

Delete ==
    /\ pc = "idle"
    /\ \E path \in DirPaths, not_fail \in BOOLEAN, fault \in BOOLEAN :
         DeleteDone([op |-> "delete", path |-> path, not_fail |-> not_fail],
                    _segments(path), DeleteStatus(dirs, _segments(path), fault))
    /\ UNCHANGED <<xml, ext, app>>

Move ==
    /\ pc = "idle"
    /\ \E path_src \in FilePaths, path_dest \in FilePaths, overwrite \in BOOLEAN,
          status \in SimpleStatuses :
            Finish([op |-> "move", path_src |-> path_src, path_dest |-> path_dest,
                    overwrite |-> overwrite],
                   move(path_src, path_dest, overwrite, <<Response(status, EmptyText)>>),
                   <<Response(status, EmptyText)>>)
    /\ UNCHANGED <<dirs, xml, ext, app>>

Copy ==
    /\ pc = "idle"
    /\ \E path_src \in FilePaths, path_dest \in FilePaths, overwrite \in BOOLEAN,
          status \in SimpleStatuses :
            Finish([op |-> "copy", path_src |-> path_src, path_dest |-> path_dest,
                    overwrite |-> overwrite],
                   copy(path_src, path_dest, overwrite, <<Response(status, EmptyText)>>),
                   <<Response(status, EmptyText)>>)
    /\ UNCHANGED <<dirs, xml, ext, app>>

ListFav ==
    /\ pc = "idle"
    /\ \E report \in FavReports :
         \E lookups \in [1..LookupsOf(report) -> LookupResponses] :
            Finish([op |-> "listfav"], listfav(<<report>> \o lookups), <<report>> \o lookups)
    /\ UNCHANGED <<dirs, xml, ext, app>>

SetFav ==
    /\ pc = "idle"
    /\ \E path \in FilePaths, value \in BOOLEAN, status \in SimpleStatuses :
            Finish([op |-> "setfav", path |-> path, value |-> value],
                   setfav(path, value, <<Response(status, EmptyText)>>),
                   <<Response(status, EmptyText)>>)
    /\ UNCHANGED <<dirs, xml, ext, app>>

\* what is not a call of FilesAPI sends nothing
Local(c, err) ==
    /\ pc' = "done"
    /\ call' = c
    /\ outcome' = err
    /\ UNCHANGED <<dirs, net, sent, returned, xml>>

\* FsNode(user, path, name, last_modified=value)
NewFsNode ==
    /\ pc = "idle"
    /\ \E path \in FilePaths, value \in DateValues :
         /\ Local([op |-> "FsNode", path |-> path, value |-> value],
                  FsNode_last_modified(session_user, path, <<"x">>, value).err)
         /\ obj' = FsNode_last_modified(session_user, path, <<"x">>, value).node
    /\ UNCHANGED <<stream, fp, worklist, app>>

\* fs_node.last_modified = value, on a node whose last_modified is prior
SetLastModified ==
    /\ pc = "idle"
    /\ \E prior \in PriorDates, value \in DateValues :
         /\ Local([op |-> "last_modified", prior |-> prior, value |-> value],
                  last_modified_setter(
                      [FsNode(session_user, <<"a", "/", "x">>, <<"x">>)
                          EXCEPT !.last_modified = prior], value).err)
         /\ obj' = last_modified_setter(
                       [FsNode(session_user, <<"a", "/", "x">>, <<"x">>)
                           EXCEPT !.last_modified = prior], value).node
    /\ UNCHANGED <<stream, fp, worklist, app>>

\* AppAPIAuthMiddleware(app, disable_for)
Construct ==
    /\ pc = "idle"
    /\ mw = <<>>
    /\ \E disable_for \in DisableLists : mw' = AppAPIAuthMiddleware(disable_for)
    /\ UNCHANGED <<pc, dirs, call, net, sent, outcome, returned, xml, ext, asgi, nextcloud>>

\* the server calls the middleware for a scope
Serve ==
    /\ pc = "idle"
    /\ mw # <<>>
    /\ \E scope \in Scopes :
         /\ Local([op |-> "__call__", scope |-> scope], __call__(mw, scope).err)
         /\ asgi' = __call__(mw, scope).asgi
    /\ UNCHANGED <<ext, mw, nextcloud>>

\* the background task of the init callback
FetchModels ==
    /\ pc = "idle"
    /\ \E models \in ModelDicts :
         /\ pc' = "done"
         /\ call' = [op |-> "__fetch_models_task", models |-> models]
         /\ outcome' = __fetch_models_task(NoReports, models).err
         /\ nextcloud' = __fetch_models_task(NoReports, models).nc
         /\ sent' = __fetch_models_task(NoReports, models).sent
    /\ UNCHANGED <<dirs, net, returned, xml, ext, mw, asgi>>

\* the caller takes the result; the next call starts from a clean slate
Return ==
    /\ pc = "done"
    /\ pc' = "idle"
    /\ call' = NoCall
    /\ net' = <<>>
    /\ sent' = <<>>
    /\ outcome' = NoError
    /\ returned' = <<>>
    /\ xml' = <<>>
    /\ stream' = "none"
    /\ fp' = <<>>
    /\ obj' = <<>>
    /\ worklist' = <<>>
    /\ asgi' = NoScope
    /\ nextcloud' = NoReports
    /\ UNCHANGED <<dirs, mw>>

Next ==
    \/ ListDir \/ ById \/ ByPath \/ Find
    \/ Download \/ Download2Stream \/ Upload
    \/ Mkdir \/ Makedirs \/ Delete \/ Move \/ Copy
    \/ ListFav \/ SetFav
    \/ NewFsNode \/ SetLastModified
    \/ Return

Spec == Init /\ [][Next]_vars

\* the application integration on its own
NextApp ==
    \/ Construct \/ Serve \/ FetchModels
    \/ Return

SpecApp == Init /\ [][NextApp]_vars

(***************************************************************************)
(* Properties                                                              *)
(***************************************************************************)
Done(ops) == pc = "done" /\ call.op \in ops

\* the first response was a multistatus the decoder unwraps
Unwrapped == net # <<>> /\ net[1].status_code = 207 /\ net[1].text.kind = "multistatus"
Items == net[1].text.response.items

NoOkBlock(record) ==
    \A k \in 1..Len(record.propstat.items) :
        ~contains(record.propstat.items[k].status, <<"200", "OK">>)

CallUser == IF call.op = "listdir" /\ call.root THEN <<>> ELSE session_user

\* the full path of directory dir, without a trailing slash
DirFullPath(dir) == Joined(session_user \o dir)

\* C1: for a directory P with N children, listdir(P, exclude_self=True) returns exactly
\* the N children and no node whose full path is P, however P is written (leading or
\* trailing slash, user-scoped or root=True).
C1_SelfExcluded ==
    (Done({"listdir"}) /\ call.exclude_self) =>
        \A dir \in ListedDirs, n \in 0..MaxChildren :
            (call.path \in PathForms(dir, call.root) /\ net = <<Response(207, Listing(dir, n))>>)
                => /\ outcome = NoError
                   /\ Len(returned) = n
                   /\ \A i \in 1..Len(returned) :
                         rstrip(full_path(returned[i])) # DirFullPath(dir)

\* C2: a record with no "200 OK" propstat block parses to a node with fileid 0, and
\* no such node is in the result of listdir, by_path, find or by_id, whatever the
\* other records are: every returned node has a file id and there are at most as
\* many of them as records with a "200 OK" block.
C2_PlaceholderFiltered ==
    (Done({"listdir", "by_path", "find", "by_id"}) /\ Unwrapped) =>
        /\ \A k \in 1..Len(Items) :
              NoOkBlock(Items[k]) =>
                  /\ _parsed(Items[k], unquote(Items[k].href), CallUser).fileid = 0
                  /\ \A i \in 1..Len(returned) :
                        returned[i] # _parsed(Items[k], unquote(Items[k].href), CallUser)
        /\ \A i \in 1..Len(returned) : returned[i].fileid # 0
        /\ Len(returned) <= Cardinality({k \in 1..Len(Items) : ~NoOkBlock(Items[k])})

C2_Witness ==
    /\ Done({"listdir", "find"})
    /\ Unwrapped
    /\ outcome = NoError
    /\ returned # <<>>
    /\ \E k \in 1..Len(Items) : NoOkBlock(Items[k])

NotNewline(a) == a # "\n"

\* C3: the decoder returns a node list only for status 207 with a non-empty body that
\* holds no d:error; a failure status, another success status and an empty body raise
\* NextcloudException with that status and return nothing, and a d:error envelope
\* raises it with the reason "{exception}: {message}", newlines removed.
C3_Decoder ==
    (Done({"listdir", "by_path", "find", "by_id", "listfav"}) /\ net # <<>>) =>
        /\ outcome = NoError => Unwrapped
        /\ ~Unwrapped =>
              /\ outcome.exc = "NextcloudException"
              /\ returned = <<>>
              /\ Len(sent) = 1
        /\ (net[1].status_code # 207 \/ net[1].text.kind = "empty") =>
              outcome.status_code = net[1].status_code
        /\ (net[1].status_code = 207 /\ net[1].text.kind = "error") =>
              outcome.reason =
                  SelectSeq(net[1].text.exception \o <<": ">> \o net[1].text.message, NotNewline)

C3_Witness ==
    /\ Done({"listdir"})
    /\ net[1].status_code = 207
    /\ net[1].text.kind = "error"
    /\ outcome.exc = "NextcloudException"
    /\ outcome.reason = <<"Sabre\\DAV\\Exception\\NotFound", ": ", "File", "not", "found">>

\* the entries of a favorites report that carry a path and no file id
Placeholders ==
    {k \in 1..Len(Items) : NoOkBlock(Items[k]) /\ _obj_name(unquote(Items[k].href)) # <<>>}
\* the position among the lookups of the one made for entry k
LookupOf(k) == Cardinality({j \in Placeholders : j <= k}) + 1
FoundId(response) == int(response.text.response.items[1].propstat.items[1].prop["oc:fileid"])
\* the placeholder entries whose lookup was made and found the node
Enriched == {k \in Placeholders : LookupOf(k) <= Len(net) /\ net[LookupOf(k)] \in Found}
\* the entries of the report that stand in the result
Kept == {k \in 1..Len(Items) : ~NoOkBlock(Items[k]) \/ k \in Enriched}

\* C4: in listfav, a report entry with a path and no file id whose by-path lookup finds
\* the node is returned as exactly one node, in the entry's place among the entries
\* kept, with favorite true and the file id the lookup gave; a node without a file id
\* is never returned; and listfav returns whenever no response has a failure status.
C4_FavoriteEnriched ==
    (Done({"listfav"}) /\ Unwrapped) =>
        /\ \A i \in 1..Len(returned) : returned[i].fileid # 0
        /\ (\A j \in 2..Len(net) : ~is_error(net[j].status_code)) => outcome = NoError
        /\ outcome = NoError =>
              /\ Len(returned) = Cardinality(Kept)
              /\ \A k \in Enriched :
                    /\ returned[Cardinality({j \in Kept : j <= k})].favorite
                    /\ returned[Cardinality({j \in Kept : j <= k})].fileid
                          = FoundId(net[LookupOf(k)])

C4_Witness ==
    /\ Done({"listfav"})
    /\ Unwrapped
    /\ Len(Items) = 2
    /\ Placeholders = {2}
    /\ net[2] = FoundResponse(<<"a", "/", "y%20z">>, 22)
    /\ outcome = NoError
    /\ Len(returned) = 2
    /\ returned[2].favorite
    /\ returned[2].fileid = 22

\* C5: in listfav, an entry whose lookup does not find the node (an empty result, or
\* a not-found status) is dropped and listfav returns normally with the other entries.
C5_FailedLookupDropped ==
    (/\ Done({"listfav"})
     /\ Unwrapped
     /\ \E j \in 2..Len(net) : net[j] \in NotFound) =>
        /\ outcome = NoError
        /\ Len(returned) = Len(Items) - Cardinality({j \in 2..Len(net) : net[j] \in NotFound})

PublicOps ==
    {"listdir", "by_id", "by_path", "find", "download", "download2stream", "upload", "mkdir",
     "makedirs", "delete", "move", "copy", "listfav", "setfav"}
CompileErrors == {"KeyError", "TypeError", "IndexError"}

\* C6 as stated: every public operation performs exactly one round trip per call.
C6_OneRoundTrip == Done(PublicOps) => Len(sent) = 1

\* C6 amended: listdir, by_id, by_path, download, download2stream, upload, mkdir,
\* delete, move, copy and setfav send exactly one request per call; find sends one when
\* its expression compiles and none when compiling raises; makedirs sends one MKCOL per
\* path segment it attempts (all of them when it returns); listfav sends the report and
\* then one PROPFIND per placeholder entry it looks up (all of them when it returns).
C6_RoundTrips ==
    /\ Done(PublicOps \ {"find", "makedirs", "listfav"}) => Len(sent) = 1
    /\ Done({"find"}) => Len(sent) = IF outcome.exc \in CompileErrors THEN 0 ELSE 1
    /\ Done({"makedirs"}) =>
          /\ Len(sent) <= Len(parts(call.path))
          /\ outcome = NoError => Len(sent) = Len(parts(call.path))
          /\ \A i \in 1..Len(sent) : sent[i].method = "MKCOL"
    /\ Done({"listfav"}) =>
          /\ sent[1].method = "REPORT"
          /\ \A i \in 2..Len(sent) : sent[i].method = "PROPFIND"
          /\ ~Unwrapped => Len(sent) = 1
          /\ Unwrapped => Len(sent) <= 1 + Cardinality(Placeholders)
          /\ (Unwrapped /\ outcome = NoError) => Len(sent) = 1 + Cardinality(Placeholders)

C6_Witness ==
    /\ Done({"makedirs"})
    /\ outcome = NoError
    /\ Len(sent) = 3

\* the number of MKCOLs makedirs sends before the first named segment
RootParts(path) == IF startswith(path, <<"/">>) THEN 1 ELSE 0

\* C7: makedirs(path, exist_ok=True) sends one MKCOL per part of the path, in order,
\* each for the path one segment longer than the one before; it goes on past a part
\* answered 405, and raises at the first part answered with another failure status
\* without attempting the later ones; so a call whose parts all answer 405 (the
\* second of two calls in a row) returns normally.
C7_Makedirs ==
    (Done({"makedirs"}) /\ call.exist_ok) =>
        /\ Len(sent) \in 1..Len(parts(call.path))
        /\ \A i \in 1..Len(sent) :
              /\ sent[i].method = "MKCOL"
              /\ RemoteTarget(sent[i])
                    = SubSeq(_segments(call.path), 1, i - RootParts(call.path))
        /\ \A i \in 1..(Len(sent) - 1) :
              ~is_error(net[i].status_code) \/ net[i].status_code = 405
        /\ IF is_error(net[Len(sent)].status_code) /\ net[Len(sent)].status_code # 405
           THEN outcome = NextcloudException(net[Len(sent)].status_code, <<>>)
           ELSE outcome = NoError /\ Len(sent) = Len(parts(call.path))

C7_Witness ==
    /\ Done({"makedirs"})
    /\ call.exist_ok
    /\ call.path = <<"a", "/", "b", "/", "c">>
    /\ Len(net) = 3
    /\ \A i \in 1..3 : net[i].status_code = 405
    /\ outcome = NoError

\* C8: delete returns normally on 404 when not_fail, raises NextcloudException with
\* status 404 when not not_fail, and raises on every other failure status whatever
\* not_fail is.
C8_Delete ==
    Done({"delete"}) =>
        /\ Len(sent) = 1
        /\ sent[1].method = "DELETE"
        /\ (net[1].status_code = 404 /\ call.not_fail) => outcome = NoError
        /\ (net[1].status_code = 404 /\ ~call.not_fail) =>
              outcome.exc = "NextcloudException" /\ outcome.status_code = 404
        /\ (is_error(net[1].status_code) /\ net[1].status_code # 404) =>
              outcome = NextcloudException(net[1].status_code, <<>>)
        /\ ~is_error(net[1].status_code) => outcome = NoError

C8_Witness ==
    /\ Done({"delete"})
    /\ call.not_fail
    /\ net[1].status_code = 404
    /\ outcome = NoError

Children(els, parent) == {i \in 1..Len(els) : els[i].parent = parent}
XmlNames ==
    {"d:and", "d:or", "d:eq", "d:like", "d:gt", "d:gte", "d:lt", "d:prop", "d:literal",
     "d:displayname", "d:getcontenttype", "d:getlastmodified", "oc:size", "oc:favorite",
     "oc:fileid"}

\* every element has a name XML allows and hangs under d:where or an earlier element
ValidXml(els) ==
    \A i \in 1..Len(els) : els[i].tag \in XmlNames /\ els[i].parent \in 0..(i - 1)

\* element i is a clause with the given tag comparing the given property
IsClause(els, i, tag, property) ==
    /\ els[i].tag = tag
    /\ \E p \in Children(els, i) :
          /\ els[p].tag = "d:prop"
          /\ \E f \in Children(els, p) : Children(els, p) = {f} /\ els[f].tag = property
    /\ \E v \in Children(els, i) : els[v].tag = "d:literal"
    /\ Cardinality(Children(els, i)) = 2

\* one d:and under d:where with exactly two children, comparing oc:fileid and oc:favorite
AndOfTwo(els) ==
    /\ ValidXml(els)
    /\ \E a \in 1..Len(els) :
          /\ {i \in 1..Len(els) : els[i].tag = "d:and"} = {a}
          /\ Children(els, 0) = {a}
          /\ Cardinality(Children(els, a)) = 2
          /\ \E x, y \in Children(els, a) :
                /\ x < y
                /\ IsClause(els, x, "d:eq", "oc:fileid")
                /\ IsClause(els, y, "d:eq", "oc:favorite")

\* one d:eq clause under d:where, comparing oc:fileid
OneEq(els) ==
    /\ ValidXml(els)
    /\ \E c \in 1..Len(els) : Children(els, 0) = {c} /\ IsClause(els, c, "d:eq", "oc:fileid")

SingleReq == <<Str("eq"), Str("fileid"), Num(42)>>
NestedReq ==
    <<Str("and"), List(<<Str("eq"), Str("fileid"), Num(42)>>),
                  List(<<Str("eq"), Str("favorite"), Bool(TRUE)>>)>>
FlatReq ==
    <<Str("and"), Str("eq"), Str("fileid"), Num(42), Str("eq"), Str("favorite"), Bool(TRUE)>>

FieldTable ==
    [k \in {"name", "mime", "last_modified", "size", "favorite", "fileid"} |->
        CASE k = "name" -> "d:displayname"
          [] k = "mime" -> "d:getcontenttype"
          [] k = "last_modified" -> "d:getlastmodified"
          [] k = "size" -> "oc:size"
          [] k = "favorite" -> "oc:favorite"
          [] k = "fileid" -> "oc:fileid"]

\* C10: a comparison on any field of the table (name, mime, last_modified, size,
\* favorite, fileid) is accepted by the compiler and emitted as its mapped property.
C10_FieldsAccepted ==
    (/\ Done({"find"})
     /\ Len(call.req) = 3
     /\ call.req[2].t = "str"
     /\ call.req[2].s \in DOMAIN FieldTable) =>
        /\ outcome.exc \notin CompileErrors
        /\ \E c \in Children(xml, 0) :
              IsClause(xml, c, "d:" \o call.req[1].s, FieldTable[call.req[2].s])

\* the tokens of a flat request list are strings, integers and booleans
IsFlat(req) == \A i \in 1..Len(req) : req[i].t # "list"
IsGroup(token) == token.t = "str" /\ token.s \in {"or", "and"}

\* the positions of a flat list that hold the operator of a comparison: a group
\* token is followed by its operands, a comparison takes three tokens
RECURSIVE OperatorsFrom(_, _)
OperatorsFrom(req, i) ==
    IF i > Len(req) THEN {}
    ELSE IF IsGroup(req[i]) THEN OperatorsFrom(req, i + 1)
    ELSE {i} \cup OperatorsFrom(req, i + 3)

\* the field names of the comparisons of a flat list
FieldsOf(req) == {req[i + 1] : i \in {j \in OperatorsFrom(req, 1) : j + 1 <= Len(req)}}
KnownField(token) == token.t = "str" /\ token.s \in DOMAIN SEARCH_PROPERTIES_MAP

\* C11: when a comparison of the expression, at top level or under an and/or, names a
\* field that is not in the table, find raises KeyError, sends no SEARCH and returns
\* nothing, and the element tree holds no property element for that comparison.
C11_UnknownFieldRejected ==
    (/\ Done({"find"})
     /\ IsFlat(call.req)
     /\ \E f \in FieldsOf(call.req) : ~KnownField(f)) =>
        /\ outcome = PyError("KeyError")
        /\ sent = <<>>
        /\ returned = <<>>
        /\ xml # <<>>
        /\ xml[Len(xml)].tag = "d:prop"

C11_Witness ==
    /\ Done({"find"})
    /\ call.req = <<Str("or"), Str("eq"), Str("fileid"), Num(42),
                    Str("eq"), Str("no_such_field"), Num(1)>>
    /\ outcome = PyError("KeyError")
    /\ sent = <<>>
    /\ Len(xml) = 7

\* C12: download2stream has released the streaming connection whenever it ends:
\* after the last chunk, after a failure status (raised with nothing written), after
\* an exception from the chunk iteration and after one from the sink's write; the sink
\* holds the chunks that were read before the call ended, and none after a failure
\* status.
C12_StreamReleased ==
    Done({"download2stream"}) =>
        /\ stream = "closed"
        /\ Len(sent) = 1
        /\ is_error(net[1].status_code) =>
              outcome = NextcloudException(net[1].status_code, <<>>) /\ fp = <<>>
        /\ (~is_error(net[1].status_code) /\ call.fault.kind = "none") =>
              outcome = NoError /\ fp = call.chunks
        /\ (~is_error(net[1].status_code) /\ call.fault.kind # "none") =>
              /\ outcome = PyError(IF call.fault.kind = "iter" THEN "ReadError" ELSE "OSError")
              /\ fp = SubSeq(call.chunks, 1, call.fault.at - 1)

C12_Witness ==
    /\ Done({"download2stream"})
    /\ call.chunks = <<1, 2>>
    /\ call.fault = [kind |-> "write", at |-> 2]
    /\ net[1].status_code = 200
    /\ outcome = PyError("OSError")
    /\ fp = <<1>>
    /\ stream = "closed"

\* the node an entry of the response stands for: the one parsed from it, or, for an
\* enriched favorite, the one its lookup gave, marked favorite
EntryNode(k) ==
    IF call.op = "listfav" /\ k \in Enriched
    THEN [_parsed(net[LookupOf(k)].text.response.items[1],
                  unquote(net[LookupOf(k)].text.response.items[1].href), session_user)
             EXCEPT !.favorite = TRUE]
    ELSE _parsed(Items[k], unquote(Items[k].href), CallUser)

\* the entries retained: those with a name and a file id, and the enriched favorites
Retained ==
    {k \in 1..Len(Items) :
        \/ call.op = "listfav" /\ k \in Enriched
        \/ /\ _obj_name(unquote(Items[k].href)) # <<>>
           /\ _parsed(Items[k], unquote(Items[k].href), CallUser).fileid # 0}

\* the nodes of the entries K, in the order of the response
InOrder(K) ==
    [i \in 1..Cardinality(K) |-> EntryNode(CHOOSE k \in K : Cardinality({j \in K : j <= k}) = i)]

\* C13: the nodes listdir, find and listfav return are the nodes of the retained
\* entries in the order of the response, an enriched favorite standing where its
\* placeholder stood; equal entries are all kept; only listdir with exclude_self
\* leaves one entry out, and never more than one.
C13_OrderPreserved ==
    (Done({"listdir", "find", "listfav"}) /\ Unwrapped /\ outcome = NoError) =>
        \/ returned = InOrder(Retained)
        \/ /\ call.op = "listdir"
           /\ call.exclude_self
           /\ \E r \in Retained : returned = InOrder(Retained \ {r})

C13_Witness ==
    /\ Done({"listfav"})
    /\ Unwrapped
    /\ outcome = NoError
    /\ Len(Items) = 2
    /\ Enriched = {1}
    /\ Len(returned) = 2
    /\ returned[1].fileid = 21
    /\ returned[1].favorite
    /\ returned[2].fileid = 20

\* a response with the same entry twice gives the node twice
C13_WitnessDuplicate ==
    /\ Done({"find"})
    /\ Unwrapped
    /\ Len(Items) = 2
    /\ Items[1] = Items[2]
    /\ Len(returned) = 2
    /\ returned[1] = returned[2]

\* the last d:getlastmodified among the "200 OK" blocks of a record that is a date,
\* as an instant; the epoch when there is none
RECURSIVE LastDate(_, _)
LastDate(blocks, k) ==
    IF k = 0 THEN Epoch
    ELSE IF /\ ~NoOkBlock(Record(<<>>, "dict", <<blocks[k]>>))
            /\ "d:getlastmodified" \in DOMAIN blocks[k].prop
            /\ blocks[k].prop["d:getlastmodified"] = ValidDate
    THEN Instant
    ELSE LastDate(blocks, k - 1)

\* an invalid date in a parsed record leaves the value the node had (the epoch, or the
\* date of an earlier block), and the call does not raise for it
C14_ParsedDateKept ==
    (Done({"listdir", "find"}) /\ Unwrapped) =>
        /\ outcome = NoError
        /\ \A i \in 1..Len(returned) :
              \E k \in 1..Len(Items) :
                  /\ returned[i] = _parsed(Items[k], unquote(Items[k].href), CallUser)
                  /\ returned[i].last_modified
                        = LastDate(Items[k].propstat.items, Len(Items[k].propstat.items))

\* C14: an invalid date string given for last_modified leaves the value the node had
\* and raises nothing, in a parsed record and on a FsNode (constructor keyword, setter);
\* a valid string reads back as its instant.
C14_InvalidDateKept ==
    /\ C14_ParsedDateKept
    /\ (Done({"last_modified"}) /\ call.value.kind = "str") =>
          /\ outcome = NoError
          /\ obj.last_modified = IF call.value.v = ValidDate THEN Instant ELSE call.prior
    /\ (Done({"FsNode"}) /\ call.value.kind = "str") =>
          /\ outcome = NoError
          /\ obj # <<>>
          /\ obj.last_modified = IF call.value.v = ValidDate THEN Instant ELSE Epoch

\* the node is the one of the account root
IsRootNode(fs_node) == rstrip(full_path(fs_node)) = session_user
\* the path names the account root
IsRootPath(path) == \A i \in 1..Len(path) : path[i] = "/"

\* C15 as stated: the entry of the account root is discarded by the record parser, so
\* by_path("") and listdir("", exclude_self=False) return no node for the root itself.
C15_RootDiscarded ==
    (/\ Done({"by_path", "listdir"})
     /\ call.path = <<>>
     /\ call.op = "listdir" => (~call.exclude_self /\ ~call.root)
     /\ Unwrapped) =>
        \A i \in 1..Len(returned) : ~IsRootNode(returned[i])

\* C15 amended: an entry is discarded when its href has no last segment (it is empty
\* or made of slashes), so no returned node has an empty name; the account root's
\* entry has the user's id as its name and is kept: given the listing of the root,
\* by_path("") returns the root's node and listdir("", exclude_self=False) returns it
\* first, before the children.
C15_EmptyNameDiscarded ==
    /\ (Done({"listdir", "by_path", "find", "by_id"}) /\ Unwrapped) =>
          /\ \A i \in 1..Len(returned) : returned[i].name # <<>>
          /\ \A k \in 1..Len(Items) : IsRootPath(unquote(Items[k].href)) => k \notin Retained
    /\ (/\ Done({"by_path", "listdir"})
        /\ IsRootPath(call.path)
        /\ call.op = "listdir" => (~call.exclude_self /\ ~call.root)
        /\ \E n \in 0..MaxChildren : net = <<Response(207, Listing(<<>>, n))>>) =>
          /\ outcome = NoError
          /\ Len(returned) = IF call.op = "by_path" THEN 1 ELSE Len(Items)
          /\ IsRootNode(returned[1])
          /\ returned[1].name = session_user
          /\ returned[1].fileid = DirId(<<>>)

C15_Witness ==
    /\ Done({"by_path"})
    /\ call.path = <<>>
    /\ net = <<Response(207, Listing(<<>>, 2))>>
    /\ Len(returned) = 1
    /\ returned[1].name = session_user
    /\ returned[1].path = <<>>
    /\ returned[1].fileid = DirId(<<>>)

\* the position after the expression that starts at position i of a flat list
\* (beyond Len + 1 when the list ends before the expression does)
RECURSIVE EndOf(_, _)
EndOf(req, i) ==
    IF i > Len(req) THEN Len(req) + 2
    ELSE IF IsGroup(req[i]) THEN EndOf(req, EndOf(req, i + 1))
    ELSE IF i + 2 > Len(req) THEN Len(req) + 2
    ELSE i + 3

\* the positions at which the top-level expressions of a flat list start
RECURSIVE TopLevelFrom(_, _)
TopLevelFrom(req, i) ==
    IF i > Len(req) THEN {} ELSE {i} \cup TopLevelFrom(req, EndOf(req, i))

\* the positions that hold an and/or
GroupsOf(req) ==
    {i \in 1..Len(req) : IsGroup(req[i])}
        \ UNION {{i + 1, i + 2} : i \in OperatorsFrom(req, 1)}

WellFormed(req) ==
    /\ IsFlat(req)
    /\ \A i \in TopLevelFrom(req, 1) : EndOf(req, i) <= Len(req) + 1
    /\ \A f \in FieldsOf(req) : KnownField(f)

\* the n-th position of a set of positions
Nth(S, n) == CHOOSE k \in S : Cardinality({j \in S : j <= k}) = n

\* the elements of the tree: and/or wrappers and comparisons, properties, literals
Properties(els) == {e \in 1..Len(els) : els[e].parent # 0 /\ els[els[e].parent].tag = "d:prop"}
Literals(els) == {e \in 1..Len(els) : els[e].tag = "d:literal"}
Heads(els) ==
    {e \in 1..Len(els) : els[e].tag \notin {"d:prop", "d:literal"}} \ Properties(els)

\* C16: for a well-formed flat list, find compiles without raising and leaves the list
\* empty; each and/or and each operator token, in order, gave one element, each field
\* one property and each value one literal (every token used once, from the front);
\* an and/or element has exactly two children, a comparison its d:prop and its
\* d:literal; the clauses under d:where are as many as the top-level expressions.
C16_TokensConsumedOnce ==
    (Done({"find"}) /\ WellFormed(call.req)) =>
        /\ outcome.exc \notin CompileErrors
        /\ Len(sent) = 1
        /\ worklist = <<>>
        /\ Cardinality(Children(xml, 0)) = Cardinality(TopLevelFrom(call.req, 1))
        /\ Cardinality(Heads(xml))
              = Cardinality(GroupsOf(call.req) \cup OperatorsFrom(call.req, 1))
        /\ \A n \in 1..Cardinality(Heads(xml)) :
              xml[Nth(Heads(xml), n)].tag
                 = "d:" \o call.req[Nth(GroupsOf(call.req) \cup OperatorsFrom(call.req, 1), n)].s
        /\ Cardinality(Properties(xml)) = Cardinality(OperatorsFrom(call.req, 1))
        /\ Cardinality(Literals(xml)) = Cardinality(OperatorsFrom(call.req, 1))
        /\ \A n \in 1..Cardinality(OperatorsFrom(call.req, 1)) :
              /\ xml[Nth(Properties(xml), n)].tag
                    = SEARCH_PROPERTIES_MAP[call.req[Nth(OperatorsFrom(call.req, 1), n) + 1].s]
              /\ xml[Nth(Literals(xml), n)].text
                    = py_str(call.req[Nth(OperatorsFrom(call.req, 1), n) + 2])
        /\ \A e \in Heads(xml) :
              IF xml[e].tag \in {"d:and", "d:or"}
              THEN Cardinality(Children(xml, e)) = 2 /\ Children(xml, e) \subseteq Heads(xml)
              ELSE \E q, v \in Children(xml, e) :
                      /\ Children(xml, e) = {q, v}
                      /\ xml[q].tag = "d:prop"
                      /\ v \in Literals(xml)
                      /\ Children(xml, q) \subseteq Properties(xml)
                      /\ Cardinality(Children(xml, q)) = 1

C16_Witness ==
    /\ Done({"find"})
    /\ call.req = <<Str("or"), Str("and"), Str("eq"), Str("fileid"), Num(42),
                    Str("eq"), Str("size"), Num(5), Str("eq"), Str("favorite"), Num(1)>>
    /\ outcome.exc \notin CompileErrors
    /\ worklist = <<>>
    /\ Cardinality(Children(xml, 0)) = 1
    /\ Len(xml) = 14

\* two top-level expressions give two clauses under d:where
C16_WitnessSiblings ==
    /\ Done({"find"})
    /\ Len(call.req) = 6
    /\ worklist = <<>>
    /\ Cardinality(Children(xml, 0)) = 2

Disabled(path) == \E k \in 1..Len(mw._disable_for) : mw._disable_for[k] = path

\* C17: the middleware calls the wrapped application for an http scope only if the
\* path, leading slashes stripped, is in the disabled list or the signature check
\* passes (and then calls it once and sends nothing itself); a request failing the
\* check gets a response with status 401 and the application is not called; the list
\* always holds "heartbeat"; a scope that is not http is always forwarded.
C17_AuthMiddleware ==
    /\ mw # <<>> => Disabled(<<"heartbeat">>)
    /\ Done({"__call__"}) =>
          /\ asgi.app_called \in {0, 1}
          /\ call.scope.type # "http" =>
                outcome = NoError /\ asgi.app_called = 1 /\ asgi.response = <<>>
          /\ call.scope.type = "http" =>
                /\ asgi.app_called = 1 <=>
                      (Disabled(lstrip(call.scope.path)) \/ call.scope.sign = "valid")
                /\ asgi.app_called = 1 => (outcome = NoError /\ asgi.response = <<>>)
                /\ (~Disabled(lstrip(call.scope.path)) /\ call.scope.sign = "invalid") =>
                      /\ outcome = NoError
                      /\ asgi.response # <<>>
                      /\ asgi.response.status_code = 401
                /\ lstrip(call.scope.path) = <<"heartbeat">> => asgi.app_called = 1

C17_Witness ==
    /\ Done({"__call__"})
    /\ call.scope.type = "http"
    /\ call.scope.path = <<"/", "init">>
    /\ call.scope.sign = "invalid"
    /\ mw._disable_for = << <<"public">>, <<"heartbeat">> >>
    /\ asgi.app_called = 0
    /\ asgi.response # <<>>
    /\ asgi.response.status_code = 401

\* the task ended with status 100 reported once, last, after statuses of at most 99,
\* having requested every model in the order of the dictionary
InitCompleted ==
    /\ outcome = NoError
    /\ nextcloud.init_status # <<>>
    /\ nextcloud.init_status[Len(nextcloud.init_status)] = 100
    /\ \A i \in 1..(Len(nextcloud.init_status) - 1) : nextcloud.init_status[i] <= 99
    /\ sent = [i \in 1..Len(call.models) |-> Request("GET", call.models[i].url)]

\* when every url of the dictionary parses, the task completes the init
C18_ParsedUrlsCompleted ==
    (/\ Done({"__fetch_models_task"})
     /\ \A i \in 1..Len(call.models) : call.models[i].url # "malformed") => InitCompleted

\* C18: for any dictionary of models with http/https keys, whatever becomes of each
\* download, the model-fetch task goes through every model in order and then reports
\* init status 100 once, as its last report, every earlier status being at most 99.
C18_InitCompleted == Done({"__fetch_models_task"}) => InitCompleted

====
